---- MODULE Spec2Model ----
(***************************************************************************)
(* Model of src/app.py, a Streamlit page: a text-to-speech box (gTTS) and  *)
(* a speech-to-text section (streamlit-webrtc capture with an upload       *)
(* fallback) whose transcript can be put into the text-to-speech box.      *)
(*                                                                         *)
(* Streamlit re-executes the whole script on every user interaction.  One  *)
(* user event therefore starts one script run; the run is modelled as a    *)
(* sequence of steps (pc) in source order.  Script-level names (transcript,*)
(* last_audio_preview, webrtc_available, frames) are re-initialised by     *)
(* every run; only st.session_state and the widgets' values persist.       *)
(* Strings are sequences of one-character strings.                         *)
(***************************************************************************)
EXTENDS Integers, Sequences, FiniteSets, TLC

\* ---------------------------------------------------------------- bounds
MaxTextLen == 1        \* longest text the user types into the text area
MaxDuration == 2       \* largest record duration the user selects (seconds)
MaxFrames == 2         \* most frames one capture receives
MaxPerPoll == 2        \* most frames one get_frames call returns
MaxCalls == 2          \* cap of the per-clip call counters

\* ------------------------------------------------------ program constants
MinSeconds == 1        \* number_input min_value
MaxSeconds == 30       \* number_input max_value
DefaultSeconds == 5    \* number_input value
TicksPerSecond == 2    \* clock resolution of the model: get_frames(timeout=1.0)
                       \* returns after at most TicksPerSecond ticks

Greeting == <<"H", "i", " ", "t", "h", "e", "r", "e", ",", " ", "I", "'", "m", " ", "y", "o", "u", "r", " ", "p", "e", "r", "s", "o", "n", "a", "l", " ", "a", "s", "s", "i", "s", "t", "a", "n", "t", ".">>

UnknownValueText == <<"(", "C", "o", "u", "l", "d", " ", "n", "o", "t", " ", "u", "n", "d", "e", "r", "s", "t", "a", "n", "d", " ", "a", "u", "d", "i", "o", ")">>

RequestErrorPrefix == <<"(", "C", "o", "u", "l", "d", " ", "n", "o", "t", " ", "r", "e", "q", "u", "e", "s", "t", " ", "r", "e", "s", "u", "l", "t", "s", ";", " ">>

\* f"(Could not request results; {e})"
RequestErrorText(e) == RequestErrorPrefix \o e \o <<")">>

\* the selectbox options
Langs == { <<"e", "n">>, <<"e", "n", "-", "u", "k">>, <<"e", "n", "-", "u", "s">>,
           <<"d", "e">>, <<"f", "r">> }

DefaultLang == <<"e", "n">>

\* --------------------------------------------------------- input domains
Alphabet == {" ", "a"}

RECURSIVE SeqsUpTo(_, _)
SeqsUpTo(S, n) ==
    IF n = 0 THEN {<<>>}
    ELSE LET shorter == SeqsUpTo(S, n - 1)
         IN  shorter \cup {Append(s, c) : s \in shorter, c \in S}

\* what the user can type into the text area
EditTexts == SeqsUpTo(Alphabet, MaxTextLen)

\* what recognize_google can return as recognised speech
Phrases == {<<"o", "k">>}

\* the detail text of an sr.RequestError
Details == {<<"e">>}

\* files the user can offer to the uploader: a decodable WAV, a WAV that is
\* not audio, an MP3 of zero bytes and a decodable OGG.  AudioSegment.from_file
\* rejects the corrupt ones, the file of zero bytes among them.
Files == {"clip", "junk", "empty", "ogg"}
EmptyFiles == {"empty"}
CorruptFiles == {"junk", "empty"}

\* the extension of a file's name
FileExt(f) ==
    CASE f = "clip" -> "wav"
      [] f = "junk" -> "wav"
      [] f = "empty" -> "mp3"
      [] f = "ogg" -> "ogg"

\* the type list of st.file_uploader (line 166)
UploaderTypes == {"wav", "mp3", "m4a", "webm"}
NoFile == "NoFile"

\* the n-th frame the receiver hands out is the number n; NextFrames(sent, k)
\* are the k frames that follow the first sent ones
NextFrames(sent, k) == [i \in 1..k |-> sent + i]

\* Python's None for a str-valued name
None == <<"None">>

\* bytes objects: the upload's raw bytes, a WAV made from frames or from an
\* upload, or nothing (None / b"")
NoBytes == [kind |-> "none", file |-> NoFile, frames |-> <<>>]
RawBytes(f) == [kind |-> "raw", file |-> f, frames |-> <<>>]
WavOfFrames(fr) == [kind |-> "wav", file |-> NoFile, frames |-> fr]
WavOfFile(f) == [kind |-> "wav", file |-> f, frames |-> <<>>]

\* the record of the gTTS calls of a run: the arguments of the last call and
\* the number of calls
NoCall == [made |-> FALSE, text |-> <<>>, lang |-> <<>>, count |-> 0]

\* no confirm click came just before
NoPrev == [is |-> FALSE, copied |-> FALSE]

Sources == {"stream", "upload"}
ZeroCalls == [s \in Sources |-> 0]

\* ------------------------------------------------------- pure functions
\* str.strip() on the model's alphabet (the only whitespace is " ")
RECURSIVE LStrip(_)
LStrip(s) == IF s # <<>> /\ Head(s) = " " THEN LStrip(Tail(s)) ELSE s

RECURSIVE RStrip(_)
RStrip(s) ==
    IF s # <<>> /\ s[Len(s)] = " " THEN RStrip(SubSeq(s, 1, Len(s) - 1)) ELSE s

Strip(s) == RStrip(LStrip(s))

\* SplitFirst without the split: the raw selection
SplitFirstRaw(s) == s

\* lang.split("-")[0]
RECURSIVE SplitFirst(_)
SplitFirst(s) ==
    IF s = <<>> \/ Head(s) = "-" THEN <<>>
    ELSE <<Head(s)>> \o SplitFirst(Tail(s))

\* truth value of a bytes-or-None: None and b"" are false
BytesTruthy(b) == b.kind # "none" /\ ~(b.kind = "raw" /\ b.file \in EmptyFiles)

\* Truthy without the test: None passes too
TruthyAlways(t) == TRUE

\* truth value of a str-or-None
Truthy(t) == t # None /\ t # <<>>

Min(a, b) == IF a < b THEN a ELSE b

\* ----------------------------------------------------------------- state
VARIABLES
    \* persists across script runs
    tts_text,           \* st.session_state["tts_text"]
    lang,               \* value of the language selectbox
    uploaded,           \* file held by the file_uploader, or NoFile
    playing,            \* webrtc_ctx.state.playing
    record_seconds,     \* value of the duration number_input
    webrtcImportOk,     \* whether "from streamlit_webrtc import ..." works
    \* script-level names of the current run
    pc,                 \* position of the current script run
    clicked,            \* the button whose click started this run
    webrtc_available,
    frames,
    elapsed,            \* time.time() - start, in ticks
    wav_bytes,          \* the WAV bytes handed to transcribe_wav_bytes
    transcript,
    last_audio_preview,
    raised,             \* exception that left the script, or "none"
    \* what the current run has put on the page
    msgs,
    recordOffered,
    uploadOffered,
    confirmOffered,
    shownTranscript,
    shownPreview,
    \* history of the current event
    confirming,         \* the event being handled is a click on confirm
    confirmTarget,      \* transcript on the page when confirm was clicked
    prevConfirm,        \* whether the event before this confirm click was a confirm
                        \* click under the same transcript, and whether it left
                        \* that transcript in tts_text
    scratch,            \* number of temporary files that exist
    tmpMade,            \* temporary files created by this run
    synthCall,          \* the gTTS call of this run
    normCalls,          \* conversions to WAV in this run, per capture path
    transCalls,         \* recognize_google calls in this run, per capture path
    clipCalls,          \* conversions of the file now in the uploader
    clipTrans,          \* recognize_google calls for the file now in the uploader
    clipFault,          \* a recognize_google call for that file ended in a RequestError
    transcriptSrc,      \* capture path that produced transcript
    streamStatus,       \* outcome of this run's streaming attempt
    uploadStatus,       \* outcome of this run's upload attempt
    delivered,          \* frames returned by the successful polls, in order
    initFailed          \* the streaming widget failed to initialise in this session

sessionVars == <<tts_text, lang, uploaded, playing, record_seconds, webrtcImportOk>>
captureVars == <<frames, elapsed, wav_bytes, delivered>>
resultVars == <<transcript, last_audio_preview, transcriptSrc>>
pageVars == <<recordOffered, uploadOffered, confirmOffered, shownTranscript, shownPreview>>
callVars == <<synthCall, normCalls, transCalls, clipCalls, clipTrans, clipFault>>
statusVars == <<streamStatus, uploadStatus>>

vars == <<sessionVars, pc, clicked, webrtc_available, captureVars, resultVars, raised,
          msgs, pageVars, confirming, confirmTarget, prevConfirm, scratch, tmpMade, callVars,
          statusVars, initFailed>>

\* The start of a script run, lines 15-39: webrtc_available is set by the
\* import, and the page is empty.  transcript and last_audio_preview
\* (lines 99-100) are assigned before any use, so the run starts with them
\* at None.
StartRun(button) ==
    /\ pc' = "tts"
    /\ clicked' = button
    /\ webrtc_available' = webrtcImportOk
    /\ frames' = <<>>
    /\ elapsed' = 0
    /\ wav_bytes' = NoBytes
    /\ delivered' = <<>>
    /\ transcript' = None
    /\ last_audio_preview' = NoBytes
    /\ transcriptSrc' = "none"
    /\ raised' = "none"
    /\ msgs' = {}
    /\ recordOffered' = FALSE
    /\ uploadOffered' = FALSE
    /\ confirmOffered' = FALSE
    /\ shownTranscript' = None
    /\ shownPreview' = NoBytes
    /\ tmpMade' = 0
    /\ synthCall' = NoCall
    /\ normCalls' = ZeroCalls
    /\ transCalls' = ZeroCalls
    /\ streamStatus' = "idle"
    /\ uploadStatus' = "idle"

\* The first run of a session: session_state gets the greeting (lines 35-36)
\* and the widgets have their defaults; the default duration is cut to the
\* largest duration the model lets the user select.
Init ==
    /\ tts_text = Greeting
    /\ lang = DefaultLang
    /\ uploaded = NoFile
    /\ playing = FALSE
    /\ record_seconds = Min(DefaultSeconds, MaxDuration)
    /\ webrtcImportOk \in BOOLEAN
    /\ pc = "tts"
    /\ clicked = "none"
    /\ webrtc_available = webrtcImportOk
    /\ frames = <<>>
    /\ elapsed = 0
    /\ wav_bytes = NoBytes
    /\ delivered = <<>>
    /\ transcript = None
    /\ last_audio_preview = NoBytes
    /\ transcriptSrc = "none"
    /\ raised = "none"
    /\ msgs = {}
    /\ recordOffered = FALSE
    /\ uploadOffered = FALSE
    /\ confirmOffered = FALSE
    /\ shownTranscript = None
    /\ shownPreview = NoBytes
    /\ confirming = FALSE
    /\ confirmTarget = None
    /\ prevConfirm = NoPrev
    /\ scratch = 0
    /\ tmpMade = 0
    /\ synthCall = NoCall
    /\ normCalls = ZeroCalls
    /\ transCalls = ZeroCalls
    /\ clipCalls = 0
    /\ clipTrans = 0
    /\ clipFault = FALSE
    /\ streamStatus = "idle"
    /\ uploadStatus = "idle"
    /\ initFailed = FALSE

\* ----------------------------------------------------------- user events
\* A user event is possible when the previous run has ended (normally or by
\* an exception); it changes one widget and starts a new run.

\* typing into the text area bound to key "tts_text"
EditText(t) ==
    /\ pc = "done"
    /\ StartRun("none")
    /\ tts_text' = t
    /\ confirming' = FALSE
    /\ confirmTarget' = None
    /\ prevConfirm' = NoPrev
    /\ UNCHANGED <<lang, uploaded, playing, record_seconds, webrtcImportOk,
                   scratch, clipCalls, clipTrans, clipFault, initFailed>>

SelectLang(l) ==
    /\ pc = "done"
    /\ l # lang
    /\ StartRun("none")
    /\ lang' = l
    /\ confirming' = FALSE
    /\ confirmTarget' = None
    /\ prevConfirm' = NoPrev
    /\ UNCHANGED <<tts_text, uploaded, playing, record_seconds, webrtcImportOk,
                   scratch, clipCalls, clipTrans, clipFault, initFailed>>

\* the number_input exists only in a run that rendered the streaming widget
SetDuration(d) ==
    /\ pc = "done"
    /\ recordOffered
    /\ d # record_seconds
    /\ d >= MinSeconds /\ d <= MaxSeconds
    /\ StartRun("none")
    /\ record_seconds' = d
    /\ confirming' = FALSE
    /\ confirmTarget' = None
    /\ prevConfirm' = NoPrev
    /\ UNCHANGED <<tts_text, lang, uploaded, playing, webrtcImportOk,
                   scratch, clipCalls, clipTrans, clipFault, initFailed>>

\* Start / Stop of the streaming widget (the browser grants the microphone)
ToggleStream ==
    /\ pc = "done"
    /\ recordOffered
    /\ StartRun("none")
    /\ playing' = ~playing
    /\ confirming' = FALSE
    /\ confirmTarget' = None
    /\ prevConfirm' = NoPrev
    /\ UNCHANGED <<tts_text, lang, uploaded, record_seconds, webrtcImportOk,
                   scratch, clipCalls, clipTrans, clipFault, initFailed>>

\* putting a file into the uploader, which takes the listed types only
Upload(f) ==
    /\ pc = "done"
    /\ uploadOffered
    /\ FileExt(f) \in UploaderTypes
    /\ f # uploaded
    /\ StartRun("none")
    /\ uploaded' = f
    /\ clipCalls' = 0
    /\ clipTrans' = 0
    /\ clipFault' = FALSE
    /\ confirming' = FALSE
    /\ confirmTarget' = None
    /\ prevConfirm' = NoPrev
    /\ UNCHANGED <<tts_text, lang, playing, record_seconds, webrtcImportOk,
                   scratch, initFailed>>

\* removing the file from the uploader
ClearUpload ==
    /\ pc = "done"
    /\ uploadOffered
    /\ uploaded # NoFile
    /\ StartRun("none")
    /\ uploaded' = NoFile
    /\ clipCalls' = 0
    /\ clipTrans' = 0
    /\ clipFault' = FALSE
    /\ confirming' = FALSE
    /\ confirmTarget' = None
    /\ prevConfirm' = NoPrev
    /\ UNCHANGED <<tts_text, lang, playing, record_seconds, webrtcImportOk,
                   scratch, initFailed>>

ClickSpeak ==
    /\ pc = "done"
    /\ StartRun("speak")
    /\ confirming' = FALSE
    /\ confirmTarget' = None
    /\ prevConfirm' = NoPrev
    /\ UNCHANGED <<sessionVars, scratch, clipCalls, clipTrans, clipFault, initFailed>>

\* the button exists only in a run that rendered it (line 117)
ClickRecord ==
    /\ pc = "done"
    /\ recordOffered
    /\ StartRun("record")
    /\ confirming' = FALSE
    /\ confirmTarget' = None
    /\ prevConfirm' = NoPrev
    /\ UNCHANGED <<sessionVars, scratch, clipCalls, clipTrans, clipFault, initFailed>>

\* the button exists only under a displayed transcript (lines 186-189)
ClickConfirm ==
    /\ pc = "done"
    /\ confirmOffered
    /\ StartRun("confirm")
    /\ confirming' = TRUE
    /\ confirmTarget' = shownTranscript
    /\ prevConfirm' = IF confirming /\ shownTranscript = confirmTarget
                      THEN [is |-> TRUE, copied |-> (tts_text = confirmTarget)]
                      ELSE NoPrev
    /\ UNCHANGED <<sessionVars, scratch, clipCalls, clipTrans, clipFault, initFailed>>

\* ------------------------------------------------------- the script run
\* Unlink without the removal: the file stays
UnlinkLeak(n) == n

\* os.unlink(tmp.name) in the finally blocks (lines 66 and 95)
Unlink(n) == n - 1

\* SpeakGuard without the strip
SpeakGuardNoStrip(t) == t # <<>>

\* the else branch of "if not text.strip()" (line 53)
SpeakGuard(t) == Strip(t) # <<>>

\* SpeakButton without the button: the handler runs in every run
SpeakButtonAlways == TRUE

\* the value of st.button("Speak (TTS)") (line 52)
SpeakButton == clicked = "speak"

\* Lines 52-58.  text is the value of the text area, which is bound to
\* st.session_state["tts_text"].  gTTS(...) builds the request and a
\* temporary file is created for the audio.
SpeakBegin ==
    /\ pc = "tts"
    /\ \/ /\ ~SpeakButton
          /\ pc' = "webrtc"
          /\ UNCHANGED <<msgs, synthCall, scratch, tmpMade>>
       \/ /\ SpeakButton
          /\ ~SpeakGuard(tts_text)
          /\ msgs' = msgs \cup {"WarnEmptyText"}
          /\ pc' = "webrtc"
          /\ UNCHANGED <<synthCall, scratch, tmpMade>>
       \/ /\ SpeakButton
          /\ SpeakGuard(tts_text)
          /\ synthCall' = [made |-> TRUE, text |-> tts_text, lang |-> SplitFirst(lang),
                            count |-> synthCall.count + 1]
          /\ scratch' = scratch + 1
          /\ tmpMade' = tmpMade + 1
          /\ pc' = "speak_save"
          /\ UNCHANGED msgs
    /\ UNCHANGED <<sessionVars, clicked, webrtc_available, captureVars, resultVars,
                   raised, pageVars, confirming, confirmTarget, prevConfirm, normCalls, transCalls,
                   clipCalls, clipTrans, clipFault, statusVars, initFailed>>

\* Lines 59-68.  tts.save either writes the audio, which is then played, or
\* raises; the finally block removes the file, and there is no except
\* clause, so the exception leaves the script and ends the run.
SpeakSave ==
    /\ pc = "speak_save"
    /\ scratch' = Unlink(scratch)
    /\ \E saved \in BOOLEAN :
         IF saved
         THEN /\ msgs' = msgs \cup {"SpeakDone"}
              /\ pc' = "webrtc"
              /\ UNCHANGED raised
         ELSE /\ raised' = "SynthesizerError"
              /\ pc' = "done"
              /\ UNCHANGED msgs
    /\ UNCHANGED <<sessionVars, clicked, webrtc_available, captureVars, resultVars,
                   pageVars, confirming, confirmTarget, prevConfirm, tmpMade, callVars, statusVars,
                   initFailed>>

\* Lines 103-118 and 156-162.  The widget is created inside the try; when it
\* raises, the except reports it and the run goes on with the upload section.
WebrtcSection ==
    /\ pc = "webrtc"
    /\ \/ /\ ~webrtc_available
          /\ pc' = "upload"
          /\ UNCHANGED <<webrtc_available, msgs, recordOffered, streamStatus,
                         initFailed, frames, elapsed>>
       \/ /\ webrtc_available
          /\ \/ /\ msgs' = msgs \cup {"WebrtcInitFailed"}
                /\ webrtc_available' = FALSE
                /\ streamStatus' = "deviceUnavailable"
                /\ initFailed' = TRUE
                /\ pc' = "upload"
                /\ UNCHANGED <<recordOffered, frames, elapsed>>
             \/ /\ recordOffered' = TRUE
                /\ clicked # "record"
                /\ pc' = "upload"
                /\ UNCHANGED <<webrtc_available, msgs, streamStatus, initFailed,
                               frames, elapsed>>
             \/ /\ recordOffered' = TRUE
                /\ clicked = "record"
                /\ ~playing
                /\ msgs' = msgs \cup {"WebrtcNotRunning"}
                /\ streamStatus' = "deviceUnavailable"
                /\ pc' = "upload"
                /\ UNCHANGED <<webrtc_available, initFailed, frames, elapsed>>
             \/ /\ recordOffered' = TRUE
                /\ clicked = "record"
                /\ playing
                /\ msgs' = msgs \cup {"Recording"}
                /\ frames' = <<>>
                /\ elapsed' = 0
                /\ streamStatus' = "capturing"
                /\ pc' = "poll"
                /\ UNCHANGED <<webrtc_available, initFailed>>
    /\ UNCHANGED <<sessionVars, clicked, wav_bytes, delivered, resultVars, raised,
                   uploadOffered, confirmOffered, shownTranscript, shownPreview,
                   confirming, confirmTarget, prevConfirm, scratch, tmpMade, callVars, uploadStatus>>

\* Deadline one second late
DeadlineLate == (record_seconds + 1) * TicksPerSecond

\* Extend with an assignment in place of the extend: earlier frames are lost
ExtendReplace(fr, new) == new

\* frames.extend(new_frames) (line 128)
Extend(fr, new) == fr \o new

\* float(record_seconds), in ticks
Deadline == record_seconds * TicksPerSecond

\* Lines 122-128: one iteration of the while loop.  get_frames(timeout=1.0)
\* returns some frames, returns none, or raises (then new_frames = []); it
\* takes at most one second, and the clock always advances.
Poll ==
    /\ pc = "poll"
    /\ elapsed < Deadline
    /\ \E d \in 1..TicksPerSecond :
         elapsed' = elapsed + d
    /\ \E k \in 0..Min(MaxPerPoll, MaxFrames - Len(delivered)) :
         LET new_frames == NextFrames(Len(delivered), k)
         IN  /\ frames' = IF new_frames # <<>> THEN Extend(frames, new_frames) ELSE frames
             /\ delivered' = delivered \o new_frames
    /\ UNCHANGED <<sessionVars, pc, clicked, webrtc_available, wav_bytes, resultVars,
                   raised, msgs, pageVars, confirming, confirmTarget, prevConfirm, scratch, tmpMade,
                   callVars, statusVars, initFailed>>

\* StreamNextPc without the conversion: the frames go straight to
\* transcribe_wav_bytes
StreamNextPcSkipConvert(fr) == IF fr = <<>> THEN "upload" ELSE "stream_tmp"

\* StreamNextPc without the test for an empty frame list
StreamNextPcAlways(fr) == "stream_convert"

\* where the run goes after the loop (lines 129-131)
StreamNextPc(fr) == IF fr = <<>> THEN "upload" ELSE "stream_convert"

\* Lines 122 and 129-131: the loop ends at the deadline.  The clock reading
\* of line 122 is not used after the loop.
PollEnd ==
    /\ pc = "poll"
    /\ elapsed >= Deadline
    /\ pc' = StreamNextPc(frames)
    /\ IF frames = <<>>
       THEN /\ msgs' = msgs \cup {"NoFrames"}
            /\ streamStatus' = "empty"
       ELSE /\ streamStatus' = "captured"
            /\ UNCHANGED msgs
    /\ elapsed' = 0
    /\ UNCHANGED <<sessionVars, clicked, webrtc_available, frames, wav_bytes, delivered,
                   resultVars, raised, pageVars, confirming, confirmTarget, prevConfirm,
                   scratch, tmpMade, callVars, uploadStatus, initFailed>>

\* Lines 132-154: the frames become one WAV (np.concatenate, sf.write); a
\* failure is caught by the except of line 158.
StreamConvert ==
    /\ pc = "stream_convert"
    /\ normCalls' = [normCalls EXCEPT !["stream"] = @ + 1]
    /\ \E converted \in BOOLEAN :
         IF converted
         THEN /\ wav_bytes' = WavOfFrames(frames)
              /\ last_audio_preview' = WavOfFrames(frames)
              /\ msgs' = msgs \cup {"Transcribing"}
              /\ streamStatus' = "transcribing"
              /\ pc' = "stream_tmp"
              /\ UNCHANGED webrtc_available
         ELSE /\ msgs' = msgs \cup {"WebrtcInitFailed"}
              /\ webrtc_available' = FALSE
              /\ streamStatus' = "normalized-failed"
              /\ pc' = "upload"
              /\ UNCHANGED <<wav_bytes, last_audio_preview>>
    /\ UNCHANGED <<sessionVars, clicked, frames, elapsed, delivered, transcript,
                   transcriptSrc, raised, pageVars, confirming, confirmTarget, prevConfirm, scratch,
                   tmpMade, synthCall, transCalls, clipCalls, clipTrans, clipFault,
                   uploadStatus, initFailed>>

TmpPc(src) == IF src = "stream" THEN "stream_tmp" ELSE "upload_tmp"
RecPc(src) == IF src = "stream" THEN "stream_rec" ELSE "upload_rec"
\* where the caller of transcribe_wav_bytes continues (lines 155 and 177)
AfterPc(src) == IF src = "stream" THEN "upload" ELSE "display"

\* Line 80: transcribe_wav_bytes creates its temporary file.
TranscribeOpen(src) ==
    /\ pc = TmpPc(src)
    /\ scratch' = scratch + 1
    /\ tmpMade' = tmpMade + 1
    /\ pc' = RecPc(src)
    /\ UNCHANGED <<sessionVars, clicked, webrtc_available, captureVars, resultVars,
                   raised, msgs, pageVars, confirming, confirmTarget, prevConfirm, callVars,
                   statusVars, initFailed>>

\* Lines 81-97.  sr.AudioFile may fail to read the file: the exception goes
\* to the caller's except (line 158 or 178).  Otherwise recognize_google is
\* called and its text, or the text made from its UnknownValueError or
\* RequestError, is returned.  The finally block removes the file.
TranscribeBody(src) ==
    /\ pc = RecPc(src)
    /\ scratch' = Unlink(scratch)
    /\ pc' = AfterPc(src)
    /\ \/ /\ msgs' = msgs \cup {IF src = "stream" THEN "WebrtcInitFailed" ELSE "UploadFailed"}
          /\ webrtc_available' = IF src = "stream" THEN FALSE ELSE webrtc_available
          /\ IF src = "stream"
             THEN streamStatus' = "read-failed" /\ UNCHANGED uploadStatus
             ELSE uploadStatus' = "read-failed" /\ UNCHANGED streamStatus
          /\ UNCHANGED <<transcript, transcriptSrc, transCalls, clipTrans, clipFault>>
       \/ /\ \E result \in {"ok", "unintelligible", "service-error"} :
               /\ \/ /\ result = "ok"
                     /\ \E p \in Phrases : transcript' = p
                  \/ /\ result = "unintelligible"
                     /\ transcript' = UnknownValueText
                  \/ /\ result = "service-error"
                     /\ \E e \in Details : transcript' = RequestErrorText(e)
               /\ clipFault' = IF src = "upload" /\ result = "service-error" THEN TRUE
                               ELSE clipFault
               /\ IF src = "stream"
                  THEN streamStatus' = "result-" \o result /\ UNCHANGED uploadStatus
                  ELSE uploadStatus' = "result-" \o result /\ UNCHANGED streamStatus
          /\ transcriptSrc' = src
          /\ transCalls' = [transCalls EXCEPT ![src] = @ + 1]
          /\ clipTrans' = IF src = "upload" THEN Min(clipTrans + 1, MaxCalls) ELSE clipTrans
          /\ UNCHANGED <<msgs, webrtc_available>>
    /\ UNCHANGED <<sessionVars, clicked, captureVars, last_audio_preview, raised,
                   pageVars, confirming, confirmTarget, prevConfirm, tmpMade, synthCall, normCalls,
                   clipCalls, initFailed>>

\* UploadNextPc with the transcription outside the try
UploadNextPcAlways(converted) == "upload_tmp"

\* where the upload section goes after AudioSegment.from_file / export
\* (lines 171-179): into transcribe_wav_bytes, or through the except
UploadNextPc(converted) == IF converted THEN "upload_tmp" ELSE "display"

\* Lines 165-176 and 178-179.  The uploader is always rendered; a file in it
\* is read, becomes the preview and is converted to WAV.
UploadSection ==
    /\ pc = "upload"
    /\ uploadOffered' = TRUE
    /\ IF uploaded = NoFile
       THEN /\ pc' = "display"
            /\ UNCHANGED <<last_audio_preview, wav_bytes, normCalls, clipCalls,
                           msgs, uploadStatus>>
       ELSE /\ last_audio_preview' = RawBytes(uploaded)
            /\ normCalls' = [normCalls EXCEPT !["upload"] = @ + 1]
            /\ clipCalls' = Min(clipCalls + 1, MaxCalls)
            /\ pc' = UploadNextPc(uploaded \notin CorruptFiles)
            /\ IF uploaded \notin CorruptFiles
               THEN /\ wav_bytes' = WavOfFile(uploaded)
                    /\ uploadStatus' = "transcribing"
                    /\ UNCHANGED msgs
               ELSE /\ msgs' = msgs \cup {"UploadFailed"}
                    /\ uploadStatus' = "normalized-failed"
                    /\ UNCHANGED wav_bytes
    /\ UNCHANGED <<sessionVars, clicked, webrtc_available, frames, elapsed, delivered,
                   transcript, transcriptSrc, raised, recordOffered, confirmOffered,
                   shownTranscript, shownPreview, confirming, confirmTarget, prevConfirm, scratch,
                   tmpMade, synthCall, transCalls, clipTrans, clipFault, streamStatus,
                   initFailed>>

\* ConfirmButton without the button: the copy happens on every run
ConfirmButtonAlways == TRUE

\* the value of st.button("Put transcription into TTS text area") (line 189)
ConfirmButton == clicked = "confirm"

\* Lines 182-192.  The preview and the transcript are shown; the confirm
\* button exists only under a transcript.  Its handler assigns to
\* st.session_state["tts_text"] after the text area with that key was
\* created in the same run: Streamlit rejects such an assignment with a
\* StreamlitAPIException, which leaves the script; a build that accepts it
\* stores the text and st.experimental_rerun() starts the script again.
Display ==
    /\ pc = "display"
    /\ shownPreview' = IF BytesTruthy(last_audio_preview) THEN last_audio_preview
                       ELSE shownPreview
    /\ IF Truthy(transcript)
       THEN /\ shownTranscript' = transcript
            /\ confirmOffered' = TRUE
       ELSE UNCHANGED <<shownTranscript, confirmOffered>>
    /\ IF Truthy(transcript) /\ ConfirmButton
       THEN \/ /\ raised' = "StreamlitAPIException"
               /\ pc' = "done"
               /\ UNCHANGED <<tts_text, msgs>>
            \/ /\ tts_text' = transcript
               /\ msgs' = msgs \cup {"ConfirmDone"}
               /\ pc' = "rerun"
               /\ UNCHANGED raised
       ELSE /\ pc' = "done"
            /\ UNCHANGED <<tts_text, msgs, raised>>
    /\ UNCHANGED <<lang, uploaded, playing, record_seconds, webrtcImportOk, clicked,
                   webrtc_available, captureVars, resultVars, recordOffered,
                   uploadOffered, confirming, confirmTarget, prevConfirm, scratch, tmpMade, callVars,
                   statusVars, initFailed>>

\* st.experimental_rerun() (line 192): the script starts again with no
\* button pressed.
Rerun ==
    /\ pc = "rerun"
    /\ StartRun("none")
    /\ UNCHANGED <<sessionVars, confirming, confirmTarget, prevConfirm, scratch, clipCalls, clipTrans, clipFault,
                   initFailed>>

UserEvent ==
    \/ \E t \in EditTexts : EditText(t)
    \/ \E l \in Langs : SelectLang(l)
    \/ \E d \in 1..MaxDuration : SetDuration(d)
    \/ ToggleStream
    \/ \E f \in Files : Upload(f)
    \/ ClearUpload
    \/ ClickSpeak
    \/ ClickRecord
    \/ ClickConfirm

ScriptStep ==
    \/ SpeakBegin
    \/ SpeakSave
    \/ WebrtcSection
    \/ Poll
    \/ PollEnd
    \/ StreamConvert
    \/ \E src \in Sources : TranscribeOpen(src)
    \/ \E src \in Sources : TranscribeBody(src)
    \/ UploadSection
    \/ Display
    \/ Rerun

Next == UserEvent \/ ScriptStep

Spec == Init /\ [][Next]_vars

\* A script run is one thread that runs to its end: a step of the script
\* that can be taken is taken.  User events are under no obligation.
FairSpec == Spec /\ WF_vars(ScriptStep)

\* ------------------------------------------------------------------ types
TypeOK ==
    /\ lang \in Langs
    /\ uploaded \in Files \cup {NoFile}
    /\ playing \in BOOLEAN
    /\ record_seconds \in MinSeconds..MaxSeconds
    /\ pc \in {"tts", "speak_save", "webrtc", "poll", "stream_convert", "stream_tmp",
               "stream_rec", "upload", "upload_tmp", "upload_rec", "display",
               "rerun", "done"}
    /\ clicked \in {"none", "speak", "record", "confirm"}
    /\ scratch \in 0..1
    /\ elapsed \in 0..(Deadline + TicksPerSecond)
    /\ Len(frames) <= MaxFrames

\* ----------------------------------------------------------------- claims
Status(src) == IF src = "stream" THEN streamStatus ELSE uploadStatus

\* the message the handler of a capture path shows for a caught exception
FailureMsg(src) == IF src = "stream" THEN "WebrtcInitFailed" ELSE "UploadFailed"

\* the capture path some bytes came from
BytesSrc(b) ==
    IF b.kind = "raw" THEN "upload"
    ELSE IF b.kind = "wav" /\ b.file = NoFile THEN "stream"
    ELSE "none"

RunEnded == pc = "done"

\* C1: when the run started by a click on "Put transcription into TTS text
\* area" has ended, tts_text is the transcript that was on the page when
\* the button was clicked.
C1_ConfirmCopiesDisplayed ==
    (RunEnded /\ confirming) => tts_text = confirmTarget

\* C2: no failure of a collaborator leaves the script: a Synthesizer failure
\* is caught like the capture failures are, and a run in which a
\* collaborator failed still evaluates the page to its end.
C2_FailuresCaught ==
    /\ raised # "SynthesizerError"
    /\ (RunEnded /\ (synthCall.made \/ msgs \cap {"WebrtcInitFailed", "UploadFailed"} # {}))
          => uploadOffered

\* C3: a temporary file exists only inside the handler that created it:
\* once the speak handler or transcribe_wav_bytes has been left, by return
\* or by exception, no temporary file exists.
C3_ScratchReleased ==
    pc \notin {"speak_save", "stream_rec", "upload_rec"} => scratch = 0

\* C3 witness: a run has ended in which both capture paths created a
\* temporary file and both failed to read the audio.
C3_Witness ==
    /\ RunEnded
    /\ tmpMade = 2
    /\ streamStatus = "read-failed"
    /\ uploadStatus = "read-failed"
    /\ scratch = 0

\* C4: a capture attempt whose conversion to WAV failed stays
\* normalized-failed for the rest of the run, its failure is on the page,
\* and recognize_google is not called for it.
C4_NormalizeFailedIsTerminal ==
    [][\A src \in Sources :
          Status(src) = "normalized-failed" =>
             /\ FailureMsg(src) \in msgs
             /\ transCalls[src] = 0
             /\ pc' # "tts" =>
                   /\ Status(src)' = "normalized-failed"
                   /\ transCalls'[src] = 0]_vars

\* C4 witness: a run has ended in which the streamed frames and the
\* uploaded file both failed conversion.
C4_Witness ==
    /\ RunEnded
    /\ streamStatus = "normalized-failed"
    /\ uploadStatus = "normalized-failed"
    /\ normCalls = [s \in Sources |-> 1]

\* C5: at the end of a run the transcript on the page and the preview on
\* the page come from the same capture attempt, no transcript is on the
\* page when the upload failed conversion.
C5_NoStaleState ==
    RunEnded =>
       /\ shownTranscript # None => BytesSrc(shownPreview) = transcriptSrc
       /\ uploadStatus = "normalized-failed" => shownTranscript = None

\* C6: once the streaming widget has failed to initialise, every run of the
\* session ends without an exception from the capture code and with the
\* uploader on the page.
C6_UploadUsableAfterInitFailure ==
    (RunEnded /\ initFailed) => uploadOffered

\* C7: a recording that ended with no frame shows "No frames captured" and
\* neither converts to WAV nor calls recognize_google for the streaming
\* attempt.
C7_EmptyCapture ==
    ("Recording" \in msgs /\ pc # "poll" /\ frames = <<>>) =>
       /\ "NoFrames" \in msgs
       /\ streamStatus = "empty"
       /\ normCalls["stream"] = 0
       /\ transCalls["stream"] = 0

\* C7 witness: a recording ran to its deadline without a frame, and the
\* upload of the same run was converted and transcribed.
C7_Witness ==
    /\ RunEnded
    /\ streamStatus = "empty"
    /\ {"Recording", "NoFrames"} \subseteq msgs
    /\ uploadStatus = "result-ok"

\* C8: after a click on Speak with an empty or whitespace-only text, gTTS
\* is not called, the speak handler creates no temporary file, and the
\* warning is shown.
C8_BlankTextNotSpoken ==
    (clicked = "speak" /\ Strip(tts_text) = <<>> /\ pc # "tts") =>
       /\ ~synthCall.made
       /\ "WarnEmptyText" \in msgs
       /\ pc = "webrtc" => (tmpMade = 0 /\ scratch = 0)

\* C8 witness: a speak run with a whitespace-only text has ended.
C8_Witness ==
    /\ RunEnded
    /\ clicked = "speak"
    /\ tts_text = <<" ">>
    /\ "WarnEmptyText" \in msgs

\* C9: tts_text changes only in the step of a user edit of the text area or
\* in the handler of a click on the confirm button, which stores the
\* transcript.
C9_OnlyEditOrConfirm ==
    [][tts_text' # tts_text =>
          \/ \E t \in EditTexts : EditText(t)
          \/ pc = "display" /\ clicked = "confirm" /\ tts_text' = transcript]_vars

\* C9 witness: a user-typed text is still in place at the end of a run that
\* displayed a transcript.
C9_Witness ==
    /\ RunEnded
    /\ tts_text = <<"a">>
    /\ shownTranscript # None
    /\ ~confirming

\* C10: the file in the uploader is converted at most once and transcribed
\* at most once, whatever events follow its upload.
C10_OnceEachPerClip ==
    clipCalls <= 1 /\ clipTrans <= 1

\* C11: an unintelligible recognition gives the fixed text "(Could not
\* understand audio)" as the transcript, the confirm button is offered
\* under it, and a click on the button leaves that text in tts_text.
C11_SentinelCopied ==
    /\ \A src \in Sources :
          (Status(src) = "result-unintelligible" /\ transcriptSrc = src)
             => transcript = UnknownValueText
    /\ (RunEnded /\ shownTranscript = UnknownValueText) => confirmOffered
    /\ (RunEnded /\ confirming /\ confirmTarget = UnknownValueText)
          => tts_text = UnknownValueText

\* the base code of each option of the language selectbox, written out
C12_BaseCode(l) ==
    CASE l = <<"e", "n">> -> <<"e", "n">>
      [] l = <<"e", "n", "-", "u", "k">> -> <<"e", "n">>
      [] l = <<"e", "n", "-", "u", "s">> -> <<"e", "n">>
      [] l = <<"d", "e">> -> <<"d", "e">>
      [] l = <<"f", "r">> -> <<"f", "r">>

\* C12: after a click on Speak with a text that is not blank, gTTS has been
\* called with the text as it stands in the text area and with the base
\* code of the selected language, which contains no hyphen.
C12_SpeakUsesBaseCode ==
    (clicked = "speak" /\ Strip(tts_text) # <<>> /\ pc # "tts") =>
       /\ synthCall.made
       /\ synthCall.text = tts_text
       /\ synthCall.lang = C12_BaseCode(lang)
       /\ \A i \in 1..Len(synthCall.lang) : synthCall.lang[i] # "-"

\* C12 witness: a speak run with the selection en-uk has ended after a gTTS
\* call with the code en.
C12_Witness ==
    /\ RunEnded
    /\ clicked = "speak"
    /\ lang = <<"e", "n", "-", "u", "k">>
    /\ synthCall.made
    /\ synthCall.text = tts_text
    /\ synthCall.lang = <<"e", "n">>

\* C13: gTTS is called only in a run started by a click on Speak, once in
\* that run, and with the text that is in the text area.
C13_SynthOnlyOnSpeak ==
    /\ synthCall.made =>
          /\ clicked = "speak"
          /\ synthCall.text = tts_text
          /\ synthCall.count = 1
    /\ ~synthCall.made => synthCall.count = 0

\* C13 witness: a speak run has ended that called gTTS and also transcribed
\* the uploaded file.
C13_Witness ==
    /\ RunEnded
    /\ synthCall.made
    /\ uploadStatus = "result-ok"
    /\ "SpeakDone" \in msgs

\* C14: a RequestError of recognize_google becomes a transcript that holds
\* the error's detail, the call is made once in the run, and once a call for
\* the file in the uploader has ended that way, recognize_google is not
\* called for that file again.
C14_ServiceFaultIsResult ==
    [][/\ \A src \in Sources :
             Status(src) = "result-service-error" =>
                /\ transCalls[src] = 1
                /\ transcriptSrc = src =>
                      \E e \in Details : transcript = RequestErrorPrefix \o e \o <<")">>
       /\ (clipFault /\ uploaded' = uploaded) =>
             transCalls'["upload"] <= transCalls["upload"]]_vars

\* C15: after two clicks on the confirm button in a row under the same
\* displayed transcript, tts_text was the displayed transcript after the
\* first click and is the displayed transcript after the second.
C15_ConfirmIdempotent ==
    (RunEnded /\ confirming /\ prevConfirm.is) =>
       /\ prevConfirm.copied
       /\ tts_text = confirmTarget

\* the allow-list of container hints of the specification
C16_AllowList == {"wav", "mp3", "m4a", "webm", "ogg"}

\* C16: a file reaches the conversion only if it is not empty and its
\* extension is in the allow-list, and the uploader takes every file that is
\* not empty and has an extension of the allow-list.
C16_UploadAdmission ==
    /\ (uploaded # NoFile /\ normCalls["upload"] > 0) =>
          /\ uploaded \notin EmptyFiles
          /\ FileExt(uploaded) \in C16_AllowList
    /\ (RunEnded /\ uploadOffered) =>
          \A f \in Files \ {uploaded} :
             (f \notin EmptyFiles /\ FileExt(f) \in C16_AllowList) => ENABLED Upload(f)

\* C17: tts_text starts as the greeting, never becomes None, and leaves the
\* greeting only by a user edit or by the confirm handler storing a
\* transcript.
C17_TextAlwaysDefined ==
    /\ tts_text = Greeting
    /\ [][/\ tts_text' # None
          /\ \A i \in 1..Len(tts_text') : tts_text'[i] # "None"
          /\ (tts_text = Greeting /\ tts_text' # Greeting) =>
                \/ \E t \in EditTexts : EditText(t)
                \/ pc = "display" /\ clicked = "confirm" /\ tts_text' = transcript]_vars

\* C17 witness: a speak run has read the greeting from tts_text and ended
\* with a transcript on the page.
C17_Witness ==
    /\ RunEnded
    /\ tts_text = Greeting
    /\ synthCall.made
    /\ synthCall.text = Greeting
    /\ shownTranscript # None

\* the outcomes after which an attempt does nothing more
C18_Terminal ==
    {"empty", "deviceUnavailable", "normalized-failed", "read-failed",
     "result-ok", "result-unintelligible", "result-service-error"}

\* the steps of one attempt; the conversion to WAV happens inside the step
\* from captured (stream) or idle (upload)
C18_Edges(src) ==
    (IF src = "stream"
     THEN {<<"idle", "capturing">>, <<"idle", "deviceUnavailable">>,
           <<"capturing", "captured">>, <<"capturing", "empty">>,
           <<"captured", "transcribing">>, <<"captured", "normalized-failed">>}
     ELSE {<<"idle", "transcribing">>, <<"idle", "normalized-failed">>})
    \cup {<<"transcribing", t>> : t \in {"read-failed", "result-ok",
                                        "result-unintelligible", "result-service-error"}}

C19_BlocksAtMostDuration ==
    /\ record_seconds \in MinSeconds..MaxSeconds
    /\ elapsed <= record_seconds * TicksPerSecond

\* C19 as amended: the duration is within 1..30; every poll starts before
\* the deadline, takes at most one second and moves the clock forward, so
\* the loop ends; it is left only at or after the deadline, and it has
\* blocked the run for less than record_seconds plus one second.
C19_BlocksLessThanDurationPlusPoll ==
    /\ [][/\ record_seconds' \in MinSeconds..MaxSeconds
          /\ (pc = "poll" /\ pc' = "poll") =>
                /\ elapsed < record_seconds * TicksPerSecond
                /\ elapsed' > elapsed
                /\ elapsed' - elapsed <= TicksPerSecond
                /\ record_seconds' = record_seconds
          /\ (pc = "poll" /\ pc' # "poll") =>
                /\ elapsed >= record_seconds * TicksPerSecond
                /\ elapsed < (record_seconds + 1) * TicksPerSecond
          /\ pc' # "poll" => elapsed' = 0]_vars
    /\ (pc = "poll") ~> (pc # "poll")

\* C19 witness: in a recording in which no poll returned a frame, the last
\* poll has returned after the deadline.
C19_Witness ==
    /\ pc = "poll"
    /\ "Recording" \in msgs
    /\ delivered = <<>>
    /\ elapsed > record_seconds * TicksPerSecond

\* C20: the WAV handed to transcribe_wav_bytes after a recording holds the
\* frames the polls returned, each once and in the order of arrival; a poll
\* before the deadline, also one that returns nothing, keeps the loop going
\* and keeps the frames collected so far.
C20_FramesInArrivalOrder ==
    [][/\ pc' \in {"stream_tmp", "stream_rec"} =>
             /\ wav_bytes'.kind = "wav"
             /\ wav_bytes'.frames = delivered'
             /\ delivered' # <<>>
             /\ \A i \in 1..Len(delivered') : delivered'[i] = i
       /\ (pc = "poll" /\ elapsed < record_seconds * TicksPerSecond) =>
             /\ pc' = "poll"
             /\ Len(frames') >= Len(frames)
             /\ SubSeq(frames', 1, Len(frames)) = frames]_vars

\* C20 witness: a two-second recording hands a WAV of two frames to
\* transcribe_wav_bytes.
C20_Witness ==
    /\ pc = "stream_rec"
    /\ record_seconds = 2
    /\ wav_bytes.frames = <<1, 2>>

====
